---- MODULE Spec2Model ----
(***************************************************************************)
(* Model of src/app.py: a Flask application with one view, home, routed at *)
(* "/", an arithmetic helper, multiply, and a bootstrap block that starts  *)
(* the development server when the file is run as the main script.         *)
(*                                                                         *)
(* The module body runs top to bottom (pc), then, in a main run, app.run   *)
(* serves requests, one thread per request (tpc).  What Flask does with a  *)
(* request (match the path against the registered rules, check the method, *)
(* call the view, wrap the returned string) is the behaviour app.py asks   *)
(* of the framework at lines 7 and 20; it is written here as the operators *)
(* DefaultMethods, Match and the actions Accept, Dispatch, Finish.         *)
(***************************************************************************)
EXTENDS Integers, FiniteSets, Sequences, TLC

(* ---- bounds of the model ---- *)
MaxThreads == 2
MaxRequests == 3
MaxCalls == 2

Threads == 1..MaxThreads

(* requests the environment may send *)
Methods == {"GET", "HEAD", "OPTIONS", "POST", "PUT", "DELETE"}
Paths == {"/", "/home", "/multiply"}

None == "None"

VARIABLES
    name,          \* __name__ of the module: "__main__" or "app"
    pc,            \* position of the module body / state of the server
    globals,       \* module-level names bound so far
    url_map,       \* app's route registry: set of rules
    bound,         \* the (host, port) the server listens on, if any
    killed,        \* an external termination was delivered
    accepted,      \* number of requests accepted so far
    calls,         \* number of times home was entered
    req,           \* per thread: the request being handled, or None
    tpc,           \* per thread: position in the handling of its request
    welcome_text,  \* per thread: home's local variable welcome_text
    resp,          \* per thread: the response produced, or None
    mulCalls,      \* number of times multiply was called
    mulResult      \* value returned by the last call of multiply, or None

vars == <<name, pc, globals, url_map, bound, killed, accepted, calls,
          req, tpc, welcome_text, resp, mulCalls, mulResult>>

serverVars == <<name, pc, globals, url_map, bound, killed, accepted, calls,
                req, tpc, welcome_text, resp>>

(* ---- literals of the source ---- *)
HomeRule == "/"
WelcomeText == "Joseph application"
RunHostLocal == "127.0.0.1"
RunHost == "0.0.0.0"
RunPort == 5000

(* ---- multiply(), lines 13-16 ---- *)
multiplySum ==
    LET a == 3
        b == 4
    IN  a + b

multiply ==
    LET a == 3
        b == 4
    IN  a * b

(* ---- the methods of a rule registered without methods=... ---- *)
DefaultMethodsWithPost == {"GET", "HEAD", "OPTIONS", "POST"}
DefaultMethods == {"GET", "HEAD", "OPTIONS"}

(* ---- the rule @app.route("/") adds for home ---- *)
HomeRouteCatchAll ==
    [rule |-> "*", endpoint |-> "home", methods |-> DefaultMethods]

HomeRoute ==
    [rule |-> HomeRule, endpoint |-> "home", methods |-> DefaultMethods]

(* the rules of the registry that match a path; "*" stands for a catch-all
   rule such as "/<path:p>", which app.py does not register *)
Match(path) == {r \in url_map : r.rule = path \/ r.rule = "*"}

(* ---- if __name__ == "__main__", line 19 ---- *)
MainGuardAlways == TRUE
MainGuard == name = "__main__"

Init ==
    /\ name \in {"__main__", "app"}
    /\ pc = "L1"
    /\ globals = {}
    /\ url_map = {}
    /\ bound = {}
    /\ killed = FALSE
    /\ accepted = 0
    /\ calls = 0
    /\ req = [t \in Threads |-> None]
    /\ tpc = [t \in Threads |-> "idle"]
    /\ welcome_text = [t \in Threads |-> None]
    /\ resp = [t \in Threads |-> None]
    /\ mulCalls = 0
    /\ mulResult = None

(* ---- module body ---- *)

\* line 1: from flask import Flask
ImportFlask ==
    /\ pc = "L1"
    /\ globals' = globals \cup {"Flask"}
    /\ pc' = "L4"
    /\ UNCHANGED <<name, url_map, bound, killed, accepted, calls,
                   req, tpc, welcome_text, resp, mulCalls, mulResult>>

\* line 4: app = Flask(__name__), an application with an empty registry
CreateApp ==
    /\ pc = "L4"
    /\ globals' = globals \cup {"app"}
    /\ url_map' = {}
    /\ pc' = "L7"
    /\ UNCHANGED <<name, bound, killed, accepted, calls,
                   req, tpc, welcome_text, resp, mulCalls, mulResult>>

\* lines 7-10: def home, decorated by app.route("/")
RegisterHome ==
    /\ pc = "L7"
    /\ url_map' = url_map \cup {HomeRoute}
    /\ globals' = globals \cup {"home"}
    /\ pc' = "L13"
    /\ UNCHANGED <<name, bound, killed, accepted, calls,
                   req, tpc, welcome_text, resp, mulCalls, mulResult>>

\* lines 13-16: def multiply (defined, not called)
DefMultiply ==
    /\ pc = "L13"
    /\ globals' = globals \cup {"multiply"}
    /\ pc' = "L19"
    /\ UNCHANGED <<name, url_map, bound, killed, accepted, calls,
                   req, tpc, welcome_text, resp, mulCalls, mulResult>>

\* lines 19-20: the guard; app.run binds and starts serving
Bootstrap ==
    /\ pc = "L19"
    /\ IF MainGuard
         THEN /\ bound' = {[host |-> RunHost, port |-> RunPort]}
              /\ pc' = "serving"
         ELSE /\ bound' = bound
              /\ pc' = "imported"
    /\ UNCHANGED <<name, globals, url_map, killed, accepted, calls,
                   req, tpc, welcome_text, resp, mulCalls, mulResult>>

(* ---- serving, inside app.run (line 20) ---- *)

\* a connection is accepted and handed to a thread
Accept(t) ==
    /\ pc = "serving"
    /\ tpc[t] = "idle"
    /\ accepted < MaxRequests
    /\ \E m \in Methods, p \in Paths :
          req' = [req EXCEPT ![t] = [method |-> m, path |-> p]]
    /\ tpc' = [tpc EXCEPT ![t] = "dispatch"]
    /\ resp' = [resp EXCEPT ![t] = None]
    /\ accepted' = accepted + 1
    /\ UNCHANGED <<name, pc, globals, url_map, bound, killed, calls,
                   welcome_text, mulCalls, mulResult>>

\* the request is matched against the registry
Dispatch(t) ==
    /\ pc = "serving"
    /\ tpc[t] = "dispatch"
    /\ LET rules == Match(req[t].path)
           allowed == UNION {r.methods : r \in rules}
       IN  IF rules = {}
             THEN /\ resp' = [resp EXCEPT ![t] =
                                 [status |-> 404, body |-> "Not Found"]]
                  /\ tpc' = [tpc EXCEPT ![t] = "respond"]
                  /\ calls' = calls
             ELSE IF req[t].method \notin allowed
               THEN /\ resp' = [resp EXCEPT ![t] =
                          [status |-> 405, body |-> "Method Not Allowed"]]
                    /\ tpc' = [tpc EXCEPT ![t] = "respond"]
                    /\ calls' = calls
               ELSE IF req[t].method = "OPTIONS"
                 THEN /\ resp' = [resp EXCEPT ![t] =
                                     [status |-> 200, body |-> ""]]
                      /\ tpc' = [tpc EXCEPT ![t] = "respond"]
                      /\ calls' = calls
                 ELSE /\ resp' = resp
                      /\ tpc' = [tpc EXCEPT ![t] = "home_9"]
                      /\ calls' = calls + 1
    /\ UNCHANGED <<name, pc, globals, url_map, bound, killed, accepted,
                   req, welcome_text, mulCalls, mulResult>>

\* line 9: welcome_text = "Joseph application"
Home9Shared(t) ==
    /\ pc = "serving"
    /\ tpc[t] = "home_9"
    /\ welcome_text' = [u \in Threads |-> WelcomeText]
    /\ tpc' = [tpc EXCEPT ![t] = "home_10"]
    /\ UNCHANGED <<name, pc, globals, url_map, bound, killed, accepted, calls,
                   req, resp, mulCalls, mulResult>>

Home9Counting(t) ==
    /\ pc = "serving"
    /\ tpc[t] = "home_9"
    /\ welcome_text' = [welcome_text EXCEPT ![t] =
                           IF calls > 1 THEN "Joseph application 2"
                                        ELSE WelcomeText]
    /\ tpc' = [tpc EXCEPT ![t] = "home_10"]
    /\ UNCHANGED <<name, pc, globals, url_map, bound, killed, accepted, calls,
                   req, resp, mulCalls, mulResult>>

Home9Global(t) ==
    /\ pc = "serving"
    /\ tpc[t] = "home_9"
    /\ welcome_text' = [welcome_text EXCEPT ![t] = WelcomeText]
    /\ globals' = globals \cup {"welcome_text"}
    /\ tpc' = [tpc EXCEPT ![t] = "home_10"]
    /\ UNCHANGED <<name, pc, url_map, bound, killed, accepted, calls,
                   req, resp, mulCalls, mulResult>>

Home9(t) ==
    /\ pc = "serving"
    /\ tpc[t] = "home_9"
    /\ welcome_text' = [welcome_text EXCEPT ![t] = WelcomeText]
    /\ tpc' = [tpc EXCEPT ![t] = "home_10"]
    /\ UNCHANGED <<name, pc, globals, url_map, bound, killed, accepted, calls,
                   req, resp, mulCalls, mulResult>>

\* line 10: return welcome_text; the string becomes a 200 response, whose
\* body is not sent for HEAD; the frame of home and its local are dropped
Home10CallsMultiply(t) ==
    /\ pc = "serving"
    /\ tpc[t] = "home_10"
    /\ resp' = [resp EXCEPT ![t] =
                   [status |-> 200,
                    body |-> IF req[t].method = "HEAD" THEN ""
                             ELSE welcome_text[t]]]
    /\ welcome_text' = [welcome_text EXCEPT ![t] = None]
    /\ tpc' = [tpc EXCEPT ![t] = "respond"]
    /\ mulCalls' = mulCalls + 1
    /\ mulResult' = multiply
    /\ UNCHANGED <<name, pc, globals, url_map, bound, killed, accepted, calls,
                   req>>

Home10(t) ==
    /\ pc = "serving"
    /\ tpc[t] = "home_10"
    /\ resp' = [resp EXCEPT ![t] =
                   [status |-> 200,
                    body |-> IF req[t].method = "HEAD" THEN ""
                             ELSE welcome_text[t]]]
    /\ welcome_text' = [welcome_text EXCEPT ![t] = None]
    /\ tpc' = [tpc EXCEPT ![t] = "respond"]
    /\ UNCHANGED <<name, pc, globals, url_map, bound, killed, accepted, calls,
                   req, mulCalls, mulResult>>

\* the response is sent and the thread ends; the server keeps serving
Finish(t) ==
    /\ pc = "serving"
    /\ tpc[t] = "respond"
    /\ tpc' = [tpc EXCEPT ![t] = "idle"]
    /\ req' = [req EXCEPT ![t] = None]
    /\ resp' = [resp EXCEPT ![t] = None]
    /\ UNCHANGED <<name, pc, globals, url_map, bound, killed, accepted, calls,
                   welcome_text, mulCalls, mulResult>>

\* the process is terminated from outside (signal, kill)
Terminate ==
    /\ pc = "serving"
    /\ killed' = TRUE
    /\ pc' = "stopped"
    /\ bound' = {}
    /\ UNCHANGED <<name, globals, url_map, accepted, calls,
                   req, tpc, welcome_text, resp, mulCalls, mulResult>>

\* a program that imported the module calls multiply()
CallMultiply ==
    /\ pc = "imported"
    /\ "multiply" \in globals
    /\ mulCalls < MaxCalls
    /\ mulCalls' = mulCalls + 1
    /\ mulResult' = multiply
    /\ UNCHANGED serverVars

Serve == \E t \in Threads :
            Accept(t) \/ Dispatch(t) \/ Home9(t) \/ Home10(t) \/ Finish(t)

Next ==
    \/ ImportFlask
    \/ CreateApp
    \/ RegisterHome
    \/ DefMultiply
    \/ Bootstrap
    \/ Serve
    \/ Terminate

Spec == Init /\ [][Next]_vars

NextCaller == Next \/ CallMultiply

SpecCaller == Init /\ [][NextCaller]_vars

(***************************************************************************)
(* Properties                                                              *)
(***************************************************************************)

\* C1: whatever requests came before, and however many times home was
\* called, a GET request to "/" is answered 200 "Joseph application".
C1_GetRootAnswer ==
    \A t \in Threads :
        (tpc[t] = "respond" /\ req[t] = [method |-> "GET", path |-> "/"])
            => resp[t] = [status |-> 200, body |-> "Joseph application"]

C1_Witness ==
    \E t \in Threads :
        /\ tpc[t] = "respond"
        /\ req[t] = [method |-> "GET", path |-> "/"]
        /\ accepted >= 3
        /\ calls >= 2

C3_MultiplyReturns12 ==
    [][mulCalls' # mulCalls
          => /\ mulResult' = 12
             /\ mulResult' = 3 * 4
             /\ UNCHANGED serverVars]_vars

C3_Witness ==
    /\ mulCalls >= 2
    /\ mulResult = 12
    /\ pc = "imported"

\* C4: a main run binds 0.0.0.0:5000; once serving, the server leaves the
\* serving state only by an external termination, never by a request.
C4_ServesUntilTerminated ==
    [][/\ (pc = "L19" /\ name = "__main__") => pc' = "serving"
       /\ pc' = "serving" => bound' = {[host |-> "0.0.0.0", port |-> 5000]}
       /\ (pc = "serving" /\ pc' # "serving") => (~killed /\ killed')
       /\ (pc = "serving" /\ \E t \in Threads : tpc'[t] # tpc[t])
             => pc' = "serving"]_vars

C4_Witness ==
    /\ pc = "serving"
    /\ ~killed
    /\ accepted >= 3
    /\ \A t \in Threads : tpc[t] = "idle"

\* C5: the steps of home change only the handling thread's own position,
\* local and response; the route registry, the module-level bindings and
\* every other variable are as they were when the request arrived.
C5_HomeFrame ==
    [][/\ \A t \in Threads :
             (tpc[t] \in {"home_9", "home_10"} /\ tpc'[t] # tpc[t])
                => /\ UNCHANGED <<name, pc, globals, url_map, bound, killed,
                                  accepted, calls, req, mulCalls, mulResult>>
                   /\ \A u \in Threads \ {t} :
                         /\ tpc'[u] = tpc[u]
                         /\ welcome_text'[u] = welcome_text[u]
                         /\ resp'[u] = resp[u]
       /\ (\E t \in Threads : tpc[t] # "idle" \/ tpc'[t] # "idle")
             => UNCHANGED <<globals, url_map>>]_vars

C5_Witness ==
    \E t \in Threads :
        /\ tpc[t] = "respond"
        /\ resp[t] = [status |-> 200, body |-> WelcomeText]
        /\ url_map = {HomeRoute}
        /\ globals = {"Flask", "app", "home", "multiply"}

\* C6: in a run of the program multiply is never called: not by the module
\* body, not by the bootstrap block, not by home.
C6_MultiplyNeverCalled ==
    /\ mulCalls = 0
    /\ mulResult = None

C6_Witness ==
    /\ pc \in {"serving", "stopped"}
    /\ "multiply" \in globals
    /\ calls >= 1
    /\ accepted >= 3
    /\ mulCalls = 0

\* C7: with requests handled concurrently, a step of one thread changes no
\* other thread's local or response, and every GET "/" that returns from
\* home carries 200 "Joseph application".
C7_NoInterference ==
    [][/\ \A t, u \in Threads :
             (t # u /\ tpc'[u] # tpc[u])
                => /\ welcome_text'[t] = welcome_text[t]
                   /\ resp'[t] = resp[t]
                   /\ tpc'[t] = tpc[t]
       /\ \A t \in Threads :
             (tpc[t] = "home_10" /\ tpc'[t] = "respond"
                 /\ req[t].method = "GET")
                => resp'[t] = [status |-> 200, body |-> "Joseph application"]
      ]_vars

C7_Witness ==
    /\ tpc[1] = "home_10"
    /\ tpc[2] = "respond"
    /\ req[1] = [method |-> "GET", path |-> "/"]
    /\ req[2] = [method |-> "GET", path |-> "/"]
    /\ resp[2] = [status |-> 200, body |-> "Joseph application"]

\* C8: "/" is registered for GET, HEAD and OPTIONS only; a request to "/"
\* with another method never enters home and never gets 200 with the body
\* "Joseph application".
C8_OtherMethodRejected ==
    /\ \A r \in url_map :
          r.rule = "/" => r.methods = {"GET", "HEAD", "OPTIONS"}
    /\ \A t \in Threads :
          (tpc[t] # "idle" /\ req[t].path = "/"
              /\ req[t].method \notin {"GET", "HEAD", "OPTIONS"})
             => /\ tpc[t] \notin {"home_9", "home_10"}
                /\ tpc[t] = "respond"
                     => ~(resp[t].status = 200
                          /\ resp[t].body = "Joseph application")

C8_Witness ==
    \E t \in Threads :
        /\ tpc[t] = "respond"
        /\ req[t] = [method |-> "POST", path |-> "/"]
        /\ resp[t].status = 405

\* C9: the route is registered at module load; an import registers it but
\* never binds or serves, and no request is handled with an empty registry.
C9_RegisterBeforeServe ==
    /\ name # "__main__"
          => /\ bound = {}
             /\ pc \notin {"serving", "stopped"}
             /\ accepted = 0
    /\ pc = "imported" => HomeRoute \in url_map
    /\ pc = "serving" => url_map # {}
    /\ \A t \in Threads : tpc[t] # "idle" => url_map # {}

C9_Witness ==
    /\ name = "app"
    /\ pc = "imported"
    /\ url_map = {HomeRoute}
    /\ bound = {}
====
